---- MODULE Spec2Model ----
(***************************************************************************)
(* A model of the Bienici scraper: the transport with its retry loop       *)
(* (scraper.py, _fetch_page), the page extractors (utils.py), and the      *)
(* orchestration of one scrape invocation (scraper.py, scrape and          *)
(* _enrich_with_details), with the construction of the scraper by main()   *)
(* (main.py, scraper.py __init__) and parse_price (utils.py).              *)
(*                                                                         *)
(* Python strings are modelled as the sequence of their "/"-separated      *)
(* segments, so that "/annonce/vente/a" is <<"", "annonce", "vente", "a">> *)
(* and the empty string is <<"">>: str.split("/") is then the identity,    *)
(* and startswith("/"), rstrip("/") and concatenation are computed on the  *)
(* segments as Python computes them on the characters.                     *)
(***************************************************************************)
EXTENDS Integers, Sequences, FiniteSets, TLC

VARIABLES
    args,                \* the arguments of this scrape invocation
    pc,                  \* the position of scrape() (main thread)
    first,               \* the _fetch_page call for page 1
    first_html,          \* scrape: html, the first page as fetched
    total_count,         \* scrape: total_count
    all_properties,      \* scrape: all_properties (first page, then extended)
    pages_to_scrape,     \* scrape: pages_to_scrape
    page_tasks,          \* scrape: futures of scrape_page, by page number
    page_log,            \* pages in the order as_completed yielded them
    unique_properties,   \* scrape: unique_properties
    detail_tasks,        \* _enrich_with_details: futures of scrape_detail, by url
    enrich_arg,          \* _enrich_with_details: its argument, properties
    prop_by_url,         \* _enrich_with_details: prop_by_url (insertion-ordered)
    properties,          \* scrape: the Property objects returned
    phases,              \* the phases scrape() has entered, in order
    fetch_io,            \* one _fetch_page call, stepped attempt by attempt
    merge_io,            \* one merge of a detail dict into an index dict
    dedup_io,            \* one run of the deduplication loop
    scraper,             \* the BieniciScraper object and what it was built from
    price_io             \* one call of parse_price

vars == <<args, pc, first, first_html, total_count, all_properties,
          pages_to_scrape,
          page_tasks, page_log, unique_properties, detail_tasks, enrich_arg,
          prop_by_url, properties, phases, fetch_io, merge_io, dedup_io,
          scraper, price_io>>

scrapeVars == <<args, pc, first, first_html, total_count, all_properties,
                pages_to_scrape, page_tasks, page_log, unique_properties,
                detail_tasks, enrich_arg, prop_by_url, properties, phases>>

ioVars == <<fetch_io, merge_io, dedup_io, scraper, price_io>>

----------------------------------------------------------------------------
(* Sequences *)

Last(s) == s[Len(s)]

Front(s) == SubSeq(s, 1, Len(s) - 1)

Range(s) == {s[i] : i \in 1..Len(s)}

----------------------------------------------------------------------------
(* Python values.  k is the type, n the number of an int or bool, p the     *)
(* segments of a str.  "absent" is a key that is not in the dict.           *)

Absent == [k |-> "absent", n |-> 0, p |-> <<>>]

PyNone == [k |-> "none", n |-> 0, p |-> <<>>]

PyInt(i) == [k |-> "int", n |-> i, p |-> <<>>]

PyBool(b) == [k |-> "bool", n |-> IF b THEN 1 ELSE 0, p |-> <<>>]

PyStr(segs) == [k |-> "str", n |-> 0, p |-> segs]

\* Python truth value; dict.get of a missing key is None, which is falsy.
Truthy(v) ==
    CASE v.k = "absent" -> FALSE
      [] v.k = "none"   -> FALSE
      [] v.k = "int"    -> v.n # 0
      [] v.k = "bool"   -> v.n # 0
      [] v.k = "str"    -> v.p # <<"">>

\* str.startswith("/")
StartsWithSlash(p) == Len(p) >= 2 /\ p[1] = ""

\* str.rstrip("/")
RECURSIVE RStripSlash(_)
RStripSlash(p) ==
    IF Len(p) > 1 /\ Last(p) = "" THEN RStripSlash(Front(p)) ELSE p

\* a + b, for b starting with "/" and a not ending with "/"
ConcatPath(a, b) == a \o Tail(b)

\* "/vente/" in s, "/location/" in s
HasSegment(p, seg) == \E i \in 2..(Len(p) - 1) : p[i] = seg

BASE_URL == <<"https:", "", "www.bienici.com">>

----------------------------------------------------------------------------
(* Records (the dicts of utils.py): a function from the keys to values.     *)

Fields == {"url", "listing_id", "price", "has_video", "contract_type",
           "floor", "description", "dpe_date"}

\* the fields of the dataclass Property that the model follows
PropertyFields == {"url", "listing_id", "price", "has_video", "contract_type",
                   "floor", "description"}

EmptyDict == [f \in Fields |-> Absent]

Keys(d) == {f \in Fields : d[f].k # "absent"}

\* d[key] = value
Put(d, key, value) == [d EXCEPT ![key] = value]

----------------------------------------------------------------------------
(* HTML documents, as what the extractors find in them.                     *)
(*   k      "none" (no content: _fetch_page returned None), "empty" (the    *)
(*          empty string) or "page"                                         *)
(*   total  the count in the "N biens a vendre" heading, 0 without one      *)
(*   cards  the article elements, in document order                         *)
(*   found  what the passes of the detail extractor match                   *)
(* A card is [link, path, price, video]: whether it holds an anchor with    *)
(* "/annonce/" in its href, the href up to its query string, the result of  *)
(* the price passes (Absent when no pass matches), and whether its text     *)
(* holds the video marker.                                                  *)

NoHtml == [k |-> "none", total |-> 0, cards |-> <<>>, found |-> EmptyDict]

EmptyHtml == [k |-> "empty", total |-> 0, cards |-> <<>>, found |-> EmptyDict]

IndexHtml(total, cards) ==
    [k |-> "page", total |-> total, cards |-> cards, found |-> EmptyDict]

DetailHtml(found) ==
    [k |-> "page", total |-> 0, cards |-> <<>>, found |-> found]

\* not html
HtmlFalsy(html) == html.k # "page"

parse_total_count(html) == html.total

\* The contract type both extractors read off the path.
ContractOf(d, p) ==
    IF HasSegment(p, "vente") THEN Put(d, "contract_type", PyStr(<<"buy">>))
    ELSE IF HasSegment(p, "location")
         THEN Put(d, "contract_type", PyStr(<<"rent">>))
         ELSE d

\* None is <<>>, a dict d is <<d>>.
extract_listing_card_data(article) ==
    IF ~article.link THEN <<>>
    ELSE LET href  == article.path
             url   == IF StartsWithSlash(href) THEN ConcatPath(BASE_URL, href)
                      ELSE href
             parts == RStripSlash(href)
             d1    == Put(EmptyDict, "url", PyStr(url))
             d2    == IF Len(parts) > 0
                      THEN Put(d1, "listing_id", PyStr(<<Last(parts)>>))
                      ELSE d1
             d3    == IF article.price.k # "absent"
                      THEN Put(d2, "price", article.price) ELSE d2
             d4    == Put(d3, "has_video", PyBool(article.video))
         IN  <<ContractOf(d4, href)>>

RECURSIVE CardsToProperties(_)
CardsToProperties(articles) ==
    IF articles = <<>> THEN <<>>
    ELSE LET prop == extract_listing_card_data(Head(articles))
         IN  (IF prop # <<>> /\ Truthy(prop[1]["url"]) THEN prop ELSE <<>>)
             \o CardsToProperties(Tail(articles))

parse_listings_from_page(html) == CardsToProperties(html.cards)

DetailKeys == {"price", "floor", "description", "dpe_date"}

parse_property_detail(html, url) ==
    LET parts == RStripSlash(url)
        d0    == [f \in Fields |->
                    IF f \in DetailKeys THEN html.found[f] ELSE Absent]
        d1    == Put(d0, "url", PyStr(url))
        d2    == Put(d1, "listing_id",
                     PyStr(IF Len(parts) > 0 THEN <<Last(parts)>> ELSE <<"">>))
        d3    == Put(d2, "has_video", PyBool(Truthy(html.found["has_video"])))
    IN  ContractOf(d3, url)

----------------------------------------------------------------------------
(* The merge of _enrich_with_details.                                       *)

AlwaysPreferDetail ==
    {"description", "agency_name", "agency_address", "energy_rating",
     "ges_rating", "floor", "exposure", "heating_type", "published_date",
     "modified_date", "reference", "mandate_type", "energy_consumption",
     "ges_emission", "energy_bill_min", "energy_bill_max",
     "price_without_fees", "agency_fees_percent"}

\* A mutant: the detail value wins for every field.
MergeKeyDetailWins(merged, key, value) ==
    IF Truthy(value) THEN Put(merged, key, value) ELSE merged

\* One iteration of "for key, value in detail.items()".
MergeKey(merged, key, value) ==
    IF Truthy(value) /\ (~Truthy(merged[key]) \/ key \in AlwaysPreferDetail)
    THEN Put(merged, key, value)
    ELSE merged

\* "for key, value in detail.items()"; merged is bound to its value after
\* each iteration
RECURSIVE MergeLoop(_, _, _)
MergeLoop(merged, detail, keys) ==
    IF keys = {} THEN merged
    ELSE LET key == CHOOSE x \in keys : TRUE
         IN  CHOOSE result \in {MergeLoop(next, detail, rest) :
                                   next \in {MergeKey(merged, key, detail[key])},
                                   rest \in {keys \ {key}}} : TRUE

\* merged = prop.copy(); the loop over detail.items()
Merge(prop, detail) == MergeLoop(prop, detail, Keys(detail))

----------------------------------------------------------------------------
(* The deduplication loop of scrape().                                      *)

\* A mutant: the last record of a listing_id replaces the first.
DedupeStepKeepLast(acc, prop) ==
    LET listing_id == prop["listing_id"]
    IN  IF ~Truthy(listing_id) THEN acc
        ELSE IF listing_id \in acc.seen
             THEN [acc EXCEPT !.unique =
                      [i \in 1..Len(@) |->
                          IF @[i]["listing_id"] = listing_id THEN prop
                          ELSE @[i]]]
             ELSE [seen |-> acc.seen \cup {listing_id},
                   unique |-> Append(acc.unique, prop)]

\* One iteration of "for prop in all_properties".
DedupeStep(acc, prop) ==
    LET listing_id == prop["listing_id"]
    IN  IF Truthy(listing_id) /\ listing_id \notin acc.seen
        THEN [seen |-> acc.seen \cup {listing_id},
              unique |-> Append(acc.unique, prop)]
        ELSE acc

\* "for prop in all_properties"; seen and unique_properties are bound to
\* their values after each iteration
RECURSIVE DedupeLoop(_, _)
DedupeLoop(acc, props) ==
    IF props = <<>> THEN acc
    ELSE CHOOSE result \in {DedupeLoop(next, Tail(props)) :
                               next \in {DedupeStep(acc, Head(props))}} : TRUE

Dedupe(props) == DedupeLoop([seen |-> {}, unique |-> <<>>], props).unique

----------------------------------------------------------------------------
(* _fetch_page: the retry loop, one attempt at a time.                      *)
(*   sent   the attempts issued so far (the loop variable of the next one)  *)
(*   waits  the sleeps made so far, in seconds                              *)
(*   st     "running", "ok" (returned response.text), "failed" (returned    *)
(*          None) or "raised" (an exception that is no RequestException     *)
(*          left the function)                                              *)

MAX_RETRIES == 3

\* requests.exceptions.RequestException and what session.get and
\* raise_for_status raise under it
RequestExceptions == {"Timeout", "HTTPError", "ConnectionError"}

NewFetch == [sent |-> 0, waits |-> <<>>, st |-> "running", html |-> NoHtml]

\* A mutant: a non-2xx status is not retried.
fetch_attempt_status_is_final(f, retries, kind, html) ==
    IF kind = "ok"
    THEN [f EXCEPT !.sent = @ + 1, !.st = "ok", !.html = html]
    ELSE IF kind = "HTTPError"
    THEN [f EXCEPT !.sent = @ + 1, !.st = "failed"]
    ELSE IF kind \in RequestExceptions
    THEN [f EXCEPT !.sent = @ + 1,
                   !.waits = IF f.sent < retries - 1
                             THEN Append(@, 2 ^ f.sent + 5) ELSE @,
                   !.st = IF f.sent + 1 < retries THEN "running" ELSE "failed"]
    ELSE [f EXCEPT !.sent = @ + 1, !.st = "raised"]

\* A mutant: the sleep also follows the last attempt.
fetch_attempt_sleep_always(f, retries, kind, html) ==
    IF kind = "ok"
    THEN [f EXCEPT !.sent = @ + 1, !.st = "ok", !.html = html]
    ELSE IF kind \in RequestExceptions
    THEN [f EXCEPT !.sent = @ + 1,
                   !.waits = Append(@, 2 ^ f.sent + 5),
                   !.st = IF f.sent + 1 < retries THEN "running" ELSE "failed"]
    ELSE [f EXCEPT !.sent = @ + 1, !.st = "raised"]

\* A mutant: a fetch that has used its budget starts over.
fetch_attempt_starts_over(f, retries, kind, html) ==
    IF kind = "ok"
    THEN [f EXCEPT !.sent = @ + 1, !.st = "ok", !.html = html]
    ELSE IF kind \in RequestExceptions
    THEN IF f.sent + 1 < retries
         THEN [f EXCEPT !.sent = @ + 1, !.waits = Append(@, 2 ^ f.sent + 5)]
         ELSE [f EXCEPT !.sent = 0, !.waits = <<>>]
    ELSE [f EXCEPT !.sent = @ + 1, !.st = "raised"]

\* The body of "for attempt in range(retries)" with attempt = f.sent; the
\* request ends as kind says ("ok": a 2xx response with body html).
fetch_attempt(f, retries, kind, html) ==
    LET attempt == f.sent
    IN  IF kind = "ok"
        THEN [f EXCEPT !.sent = @ + 1, !.st = "ok", !.html = html]
        ELSE IF kind \in RequestExceptions
        THEN [f EXCEPT !.sent = @ + 1,
                       !.waits = IF attempt < retries - 1
                                 THEN Append(@, 2 ^ attempt + 5) ELSE @,
                       !.st = IF attempt + 1 < retries THEN "running"
                              ELSE "failed"]
        ELSE [f EXCEPT !.sent = @ + 1, !.st = "raised"]

\* What _fetch_page returned.
FetchResult(f) == IF f.st = "ok" THEN f.html ELSE NoHtml

----------------------------------------------------------------------------
(* Insertion-ordered dicts (prop_by_url): a sequence of [key, val] with     *)
(* distinct keys.                                                           *)

DictHas(d, key) == \E i \in 1..Len(d) : d[i].key = key

DictGet(d, key) == d[CHOOSE i \in 1..Len(d) : d[i].key = key].val

\* A mutant: a key that is set again moves to the end.
DictSetMovesToEnd(d, key, val) ==
    Append(SelectSeq(d, LAMBDA e : e.key # key), [key |-> key, val |-> val])

\* d[key] = val: a new key goes last, a known key keeps its place
DictSet(d, key, val) ==
    IF DictHas(d, key)
    THEN [i \in 1..Len(d) |->
             IF d[i].key = key THEN [key |-> key, val |-> val] ELSE d[i]]
    ELSE Append(d, [key |-> key, val |-> val])

\* list(d.values())
DictValues(d) == [i \in 1..Len(d) |-> d[i].val]

\* {p.get("url"): p for p in properties}; a missing url is the key None
RECURSIVE DictByUrl(_, _)
DictByUrl(d, props) ==
    IF props = <<>> THEN d
    ELSE LET p   == Head(props)
             key == IF p["url"].k = "absent" THEN PyNone ELSE p["url"]
         IN  DictByUrl(DictSet(d, key, p), Tail(props))

\* [p.get("url") for p in properties if p.get("url")]
RECURSIVE UrlsOf(_)
UrlsOf(props) ==
    IF props = <<>> THEN <<>>
    ELSE (IF Truthy(Head(props)["url"]) THEN <<Head(props)["url"]>> ELSE <<>>)
         \o UrlsOf(Tail(props))

----------------------------------------------------------------------------
(* The pieces of scrape() and _enrich_with_details().                       *)

LISTINGS_PER_PAGE == 24

\* total_pages: lines 237-238
EstimatePages(total, first_page_properties) ==
    LET listings_per_page ==
            IF Len(first_page_properties) > LISTINGS_PER_PAGE
            THEN Len(first_page_properties) ELSE LISTINGS_PER_PAGE
    IN  (total + listings_per_page - 1) \div listings_per_page

\* min(a, b)
Min(a, b) == IF a < b THEN a ELSE b

\* pages_to_scrape: lines 243-245
PagesToScrape(total_pages, max_pages) ==
    IF Truthy(max_pages) THEN Min(total_pages, max_pages.n) ELSE total_pages

\* A mutant: without a limit two records are kept.
ApplyLimitToTwoByDefault(unique, limit) ==
    IF Truthy(limit) THEN SubSeq(unique, 1, Min(limit.n, Len(unique)))
    ELSE SubSeq(unique, 1, Min(2, Len(unique)))

\* unique_properties after "if limit:": lines 285-286 (limit >= 0)
ApplyLimitTo(unique, limit) ==
    IF Truthy(limit) THEN SubSeq(unique, 1, Min(limit.n, Len(unique)))
    ELSE unique

\* A mutant: the detail pages are fetched whether asked for or not.
AfterLimitAlwaysDetails(fetch_details) == "FETCH_DETAILS"

\* Where scrape() goes after the limit: line 291
AfterLimit(fetch_details) ==
    IF fetch_details THEN "FETCH_DETAILS" ELSE "BUILD_RECORDS"

\* A mutant: a first page without cards does not end the scrape.
FirstPageAbortsOnNoHtmlOnly(doc) == HtmlFalsy(doc)

\* Whether scrape() returns [] after the first page: lines 225-234
FirstPageAborts(doc) ==
    HtmlFalsy(doc) \/ parse_listings_from_page(doc) = <<>>

\* A mutant: a page task that raised empties the accumulated list.
CollectPageAbortOnRaise(acc, task) ==
    IF task.st = "raised" THEN <<>> ELSE acc \o task.result

\* The body of "for future in as_completed(futures)" of scrape():
\* lines 267-273
CollectPage(acc, task) ==
    IF task.st = "raised" THEN acc ELSE acc \o task.result

\* A mutant: a listing whose detail fetch failed is dropped.
CollectDetailDropFailed(d, task) ==
    IF task.st # "raised" /\ task.detail # <<>> /\ DictHas(d, task.url)
    THEN DictSet(d, task.url, Merge(DictGet(d, task.url), task.detail[1]))
    ELSE SelectSeq(d, LAMBDA e : e.key # task.url)

\* A mutant: the merged record is stored under the mapping's first key.
CollectDetailIntoFirstKey(d, task) ==
    IF task.st # "raised" /\ task.detail # <<>> /\ DictHas(d, task.url)
    THEN DictSet(d, d[1].key, Merge(DictGet(d, task.url), task.detail[1]))
    ELSE d

\* The body of "for future in as_completed(futures)" of
\* _enrich_with_details(): lines 330-349; future.result() raises what the
\* task raised, and task.detail is <<>> for None
CollectDetail(d, task) ==
    IF task.st # "raised" /\ task.detail # <<>> /\ DictHas(d, task.url)
    THEN DictSet(d, task.url, Merge(DictGet(d, task.url), task.detail[1]))
    ELSE d

\* Property(**prop_dict) raises on a key that is no field of Property
Coercible(prop_dict) == Keys(prop_dict) \subseteq PropertyFields

\* A mutant: the first mapping that cannot be coerced ends the loop.
BuildPropertiesUntilFailure(props) ==
    IF \E i \in 1..Len(props) : ~Coercible(props[i])
    THEN SubSeq(props, 1,
                (CHOOSE i \in 1..Len(props) :
                    /\ ~Coercible(props[i])
                    /\ \A j \in 1..(i - 1) : Coercible(props[j])) - 1)
    ELSE props

\* lines 296-301
RECURSIVE BuildProperties(_)
BuildProperties(props) ==
    IF props = <<>> THEN <<>>
    ELSE (IF Coercible(Head(props)) THEN <<Head(props)>> ELSE <<>>)
         \o BuildProperties(Tail(props))

----------------------------------------------------------------------------
(* What the upstream can answer.  Every request is answered on its own: a   *)
(* 2xx response with one of the documents below, a transport failure, or    *)
(* an exception that is no RequestException.                                *)

MaxPagesArg == 2      \* max_pages is None or 0..MaxPagesArg
MaxLimit == 2         \* limit is None or 0..MaxLimit
MaxTotalPages == 3    \* the headings announce up to this many pages of 24

Card(path, price, video) ==
    [link |-> TRUE, path |-> path, price |-> price, video |-> video]

\* an article without a listing link (an advertisement)
CardAd == [link |-> FALSE, path |-> <<"">>, price |-> Absent, video |-> FALSE]

CardA == Card(<<"", "annonce", "vente", "a">>, PyInt(300000), FALSE)

\* the same listing under an absolute href, with other card data
CardA2 == Card(<<"https:", "", "www.bienici.com", "annonce", "vente", "a">>,
               PyInt(310000), TRUE)

\* the same listing under another url (a trailing slash)
CardA3 == Card(<<"", "annonce", "vente", "a", "">>, PyNone, FALSE)

\* another listing, to let
CardB == Card(<<"", "annonce", "location", "b">>, Absent, TRUE)

\* a page denser than the 24 the estimate assumes
BigPage == [i \in 1..(LISTINGS_PER_PAGE + 1) |->
               IF i % 2 = 1 THEN CardA ELSE CardA3]

Totals == {0} \cup {LISTINGS_PER_PAGE * (k - 1) + 1 : k \in 2..MaxTotalPages}

FirstDocs ==
    {EmptyHtml}
    \cup {IndexHtml(t, c) : t \in Totals,
                            c \in {<<>>, <<CardAd>>, <<CardA, CardAd>>, BigPage}}

PageDocs ==
    {EmptyHtml, IndexHtml(0, <<CardA2, CardB>>), IndexHtml(0, <<CardB, CardA3>>)}

Found(price, floor, description, dpe_date, video) ==
    [f \in Fields |->
        CASE f = "price"       -> price
          [] f = "floor"       -> floor
          [] f = "description" -> description
          [] f = "dpe_date"    -> dpe_date
          [] f = "has_video"   -> PyBool(video)
          [] OTHER             -> Absent]

DetailDocs ==
    {EmptyHtml,
     DetailHtml(Found(PyInt(310000), PyStr(<<"0">>), PyStr(<<"x">>), Absent,
                      TRUE)),
     DetailHtml(Found(Absent, Absent, Absent, PyStr(<<"1 janvier 2024">>),
                      FALSE))}

\* the ways one attempt can end
Responses(docs) ==
    {[kind |-> "ok", html |-> d] : d \in docs}
    \cup {[kind |-> k, html |-> NoHtml] : k \in RequestExceptions \cup {"Other"}}

OptionalInt(max) == {PyNone} \cup {PyInt(i) : i \in 0..max}

Args == [max_pages : OptionalInt(MaxPagesArg), limit : OptionalInt(MaxLimit),
         fetch_details : BOOLEAN]

----------------------------------------------------------------------------
(* Tasks of the thread pool.  st is "running" until _fetch_page returns,    *)
(* then what it did: "ok", "failed" (None) or "raised".                     *)

\* the frame of a _fetch_page call that is not running
Returned == [sent |-> 0, waits |-> <<>>, st |-> "returned", html |-> NoHtml]

\* scrape_page for a page above 1: the list of its result tuple
scrape_page(doc) ==
    IF HtmlFalsy(doc) THEN <<>> ELSE parse_listings_from_page(doc)

\* scrape_detail: <<>> is None
scrape_detail(doc, url) ==
    IF HtmlFalsy(doc) THEN <<>> ELSE <<parse_property_detail(doc, url)>>

NewPageTask ==
    [f |-> NewFetch, st |-> "running", result |-> <<>>, collected |-> FALSE]

NewDetailTask(url) ==
    [url |-> url, f |-> NewFetch, st |-> "running", detail |-> <<>>,
     collected |-> FALSE]

IdleFetchIo == [retries |-> 0, f |-> Returned, log |-> <<>>]

IdleMergeIo == [index |-> EmptyDict, detail |-> EmptyDict, merged |-> EmptyDict,
                done |-> FALSE]

IdleDedupIo == [input |-> <<>>, output |-> <<>>, done |-> FALSE]

IdlePriceIo == [text |-> <<>>, result |-> PyNone, done |-> FALSE]

\* os.getenv("SCRAPINGANT_API_KEY", ""): config.py line 6
SCRAPINGANT_API_KEY(environ) ==
    IF environ.k = "absent" THEN PyStr(<<"">>) ELSE environ

\* A mutant: the environment takes precedence over the argument.
ApiKeyEnvFirst(api_key, env_key) == IF Truthy(env_key) THEN env_key ELSE api_key

\* api_key or SCRAPINGANT_API_KEY: line 55
ApiKeyOr(api_key, env_key) == IF Truthy(api_key) THEN api_key ELSE env_key

\* __init__: lines 55-64.  arg is the api_key argument, environ the
\* variable of the process environment; st is "new" before __init__ runs,
\* then "constructed" or "ValueError".
Construct(arg, environ) ==
    LET api_key == ApiKeyOr(arg, SCRAPINGANT_API_KEY(environ))
    IN  [arg |-> arg, environ |-> environ, api_key |-> api_key,
         st |-> IF ~Truthy(api_key) THEN "ValueError" ELSE "constructed"]

\* a scraper built from the key of the environment
DefaultScraper == Construct(PyNone, PyStr(<<"env-key">>))

----------------------------------------------------------------------------
(* One scrape invocation.                                                   *)

Init ==
    /\ args \in Args
    /\ pc = "INIT"
    /\ first = Returned
    /\ first_html = NoHtml
    /\ total_count = 0
    /\ all_properties = <<>>
    /\ pages_to_scrape = 0
    /\ page_tasks = <<>>
    /\ page_log = <<>>
    /\ unique_properties = <<>>
    /\ detail_tasks = <<>>
    /\ enrich_arg = <<>>
    /\ prop_by_url = <<>>
    /\ properties = <<>>
    /\ phases = <<"INIT">>
    /\ fetch_io = IdleFetchIo
    /\ merge_io = IdleMergeIo
    /\ dedup_io = IdleDedupIo
    /\ scraper = DefaultScraper
    /\ price_io = IdlePriceIo

\* scrape() is called: lines 216-224
Start ==
    /\ pc = "INIT"
    /\ pc' = "FETCH_FIRST_PAGE"
    /\ first' = NewFetch
    /\ phases' = Append(phases, "FETCH_FIRST_PAGE")
    /\ UNCHANGED <<args, first_html, total_count, all_properties,
                   pages_to_scrape, page_tasks, page_log, unique_properties,
                   detail_tasks, enrich_arg, prop_by_url, properties,
                   ioVars>>

\* one attempt of the fetch of page 1
FirstPageAttempt ==
    /\ pc = "FETCH_FIRST_PAGE"
    /\ first.st = "running"
    /\ \E r \in Responses(FirstDocs) :
          first' = fetch_attempt(first, MAX_RETRIES, r.kind, r.html)
    /\ UNCHANGED <<args, pc, first_html, total_count, all_properties,
                   pages_to_scrape, page_tasks, page_log, unique_properties,
                   detail_tasks, enrich_arg, prop_by_url, properties, phases,
                   ioVars>>

\* _fetch_page has returned or raised: lines 224-234
FirstPageReturned ==
    /\ pc = "FETCH_FIRST_PAGE"
    /\ first.st \in {"ok", "failed", "raised"}
    /\ first' = Returned
    /\ IF first.st = "raised"
       THEN /\ pc' = "RAISED"
            /\ UNCHANGED <<first_html, total_count, properties, phases>>
       ELSE LET doc == FetchResult(first)
            IN  /\ first_html' = doc
                /\ total_count' = IF HtmlFalsy(doc) THEN total_count
                                  ELSE parse_total_count(doc)
                /\ IF FirstPageAborts(doc)
                   THEN /\ properties' = <<>>
                        /\ pc' = "DONE"
                        /\ phases' = Append(phases, "DONE")
                   ELSE /\ pc' = "ESTIMATE_TOTAL"
                        /\ phases' = Append(phases, "ESTIMATE_TOTAL")
                        /\ UNCHANGED properties
    /\ UNCHANGED <<args, all_properties, pages_to_scrape, page_tasks, page_log,
                   unique_properties, detail_tasks, enrich_arg, prop_by_url,
                   ioVars>>

\* lines 236-250
EstimateTotal ==
    /\ pc = "ESTIMATE_TOTAL"
    /\ LET first_page_properties == parse_listings_from_page(first_html)
       IN  /\ pages_to_scrape' =
                 PagesToScrape(EstimatePages(total_count, first_page_properties),
                               args.max_pages)
           /\ all_properties' = first_page_properties
    /\ pc' = "FETCH_REMAINING_PAGES"
    /\ phases' = Append(phases, "FETCH_REMAINING_PAGES")
    /\ UNCHANGED <<args, first, first_html, total_count, page_tasks, page_log,
                   unique_properties, detail_tasks, enrich_arg, prop_by_url,
                   properties, ioVars>>

\* lines 253-264: every remaining page is submitted up front
SubmitPages ==
    /\ pc = "FETCH_REMAINING_PAGES"
    /\ IF pages_to_scrape > 1
       THEN /\ page_tasks' = [page \in 2..pages_to_scrape |-> NewPageTask]
            /\ pc' = "PAGES_COLLECT"
            /\ UNCHANGED phases
       ELSE /\ pc' = "DEDUPE"
            /\ phases' = Append(phases, "DEDUPE")
            /\ UNCHANGED page_tasks
    /\ UNCHANGED <<args, first, first_html, total_count, all_properties,
                   pages_to_scrape, page_log, unique_properties, detail_tasks,
                   enrich_arg, prop_by_url, properties, ioVars>>

\* a worker: one attempt of scrape_page's fetch, and lines 169-175 once the
\* fetch has returned
PageAttempt(page) ==
    /\ pc = "PAGES_COLLECT"
    /\ page_tasks[page].st = "running"
    /\ \E r \in Responses(PageDocs) :
          LET f2 == fetch_attempt(page_tasks[page].f, MAX_RETRIES, r.kind,
                                  r.html)
          IN  page_tasks' =
                 [page_tasks EXCEPT ![page] =
                     IF f2.st = "running" THEN [@ EXCEPT !.f = f2]
                     ELSE [f |-> Returned, st |-> f2.st,
                           result |-> IF f2.st = "ok" THEN scrape_page(f2.html)
                                      ELSE <<>>,
                           collected |-> FALSE]]
    /\ UNCHANGED <<args, pc, first, first_html, total_count, all_properties,
                   pages_to_scrape, page_log, unique_properties, detail_tasks,
                   enrich_arg, prop_by_url, properties, phases, ioVars>>

\* the main thread: as_completed yields a finished future, lines 266-273
PageCollect(page) ==
    /\ pc = "PAGES_COLLECT"
    /\ page_tasks[page].st # "running"
    /\ ~page_tasks[page].collected
    /\ all_properties' = CollectPage(all_properties, page_tasks[page])
    /\ page_tasks' = [page_tasks EXCEPT ![page].collected = TRUE]
    /\ page_log' = Append(page_log, page)
    /\ UNCHANGED <<args, pc, first, first_html, total_count, pages_to_scrape,
                   unique_properties, detail_tasks, enrich_arg, prop_by_url,
                   properties, phases, ioVars>>

\* as_completed is exhausted and the executor is left
PagesDone ==
    /\ pc = "PAGES_COLLECT"
    /\ \A page \in DOMAIN page_tasks : page_tasks[page].collected
    /\ pc' = "DEDUPE"
    /\ phases' = Append(phases, "DEDUPE")
    /\ UNCHANGED <<args, first, first_html, total_count, all_properties,
                   pages_to_scrape, page_tasks, page_log, unique_properties,
                   detail_tasks, enrich_arg, prop_by_url, properties,
                   ioVars>>

\* lines 275-282.  What scrape() does not read again (html, total_count,
\* pages_to_scrape, the futures, all_properties) is forgotten here.
Deduplicate ==
    /\ pc = "DEDUPE"
    /\ unique_properties' = Dedupe(all_properties)
    /\ pc' = "APPLY_LIMIT"
    /\ phases' = Append(phases, "APPLY_LIMIT")
    /\ first_html' = NoHtml
    /\ total_count' = 0
    /\ pages_to_scrape' = 0
    /\ page_tasks' = <<>>
    /\ page_log' = <<>>
    /\ all_properties' = <<>>
    /\ UNCHANGED <<args, first, detail_tasks, enrich_arg, prop_by_url,
                   properties, ioVars>>

\* lines 284-291
ApplyLimit ==
    /\ pc = "APPLY_LIMIT"
    /\ unique_properties' = ApplyLimitTo(unique_properties, args.limit)
    /\ pc' = AfterLimit(args.fetch_details)
    /\ phases' = Append(phases, pc')
    /\ UNCHANGED <<args, first, first_html, total_count, all_properties,
                   pages_to_scrape, page_tasks, page_log, detail_tasks,
                   enrich_arg, prop_by_url, properties, ioVars>>

\* _enrich_with_details is entered: lines 315-327
EnrichSubmit ==
    /\ pc = "FETCH_DETAILS"
    /\ enrich_arg' = unique_properties
    /\ LET urls == UrlsOf(unique_properties)
       IN  IF urls = <<>>
           THEN /\ pc' = "BUILD_RECORDS"
                /\ phases' = Append(phases, "BUILD_RECORDS")
                /\ UNCHANGED <<prop_by_url, detail_tasks>>
           ELSE /\ prop_by_url' = DictByUrl(<<>>, unique_properties)
                /\ detail_tasks' = [i \in 1..Len(urls) |-> NewDetailTask(urls[i])]
                /\ pc' = "DETAILS_COLLECT"
                /\ UNCHANGED phases
    /\ UNCHANGED <<args, first, first_html, total_count, all_properties,
                   pages_to_scrape, page_tasks, page_log, unique_properties,
                   properties, ioVars>>

\* a worker: one attempt of scrape_detail's fetch, and lines 189-192 once the
\* fetch has returned
DetailAttempt(i) ==
    /\ pc = "DETAILS_COLLECT"
    /\ detail_tasks[i].st = "running"
    /\ \E r \in Responses(DetailDocs) :
          LET f2 == fetch_attempt(detail_tasks[i].f, MAX_RETRIES, r.kind, r.html)
          IN  detail_tasks' =
                 [detail_tasks EXCEPT ![i] =
                     IF f2.st = "running" THEN [@ EXCEPT !.f = f2]
                     ELSE [url |-> @.url, f |-> Returned, st |-> f2.st,
                           detail |-> IF f2.st = "ok"
                                      THEN scrape_detail(f2.html, @.url.p)
                                      ELSE <<>>,
                           collected |-> FALSE]]
    /\ UNCHANGED <<args, pc, first, first_html, total_count, all_properties,
                   pages_to_scrape, page_tasks, page_log, unique_properties,
                   enrich_arg, prop_by_url, properties, phases, ioVars>>

\* the main thread: as_completed yields a finished future, lines 329-349
DetailCollect(i) ==
    /\ pc = "DETAILS_COLLECT"
    /\ detail_tasks[i].st # "running"
    /\ ~detail_tasks[i].collected
    /\ prop_by_url' = CollectDetail(prop_by_url, detail_tasks[i])
    /\ detail_tasks' = [detail_tasks EXCEPT ![i].collected = TRUE]
    /\ UNCHANGED <<args, pc, first, first_html, total_count, all_properties,
                   pages_to_scrape, page_tasks, page_log, unique_properties,
                   enrich_arg, properties, phases, ioVars>>

\* line 351 and the return into scrape()
EnrichReturn ==
    /\ pc = "DETAILS_COLLECT"
    /\ \A i \in DOMAIN detail_tasks : detail_tasks[i].collected
    /\ unique_properties' = DictValues(prop_by_url)
    /\ pc' = "BUILD_RECORDS"
    /\ phases' = Append(phases, "BUILD_RECORDS")
    /\ UNCHANGED <<args, first, first_html, total_count, all_properties,
                   pages_to_scrape, page_tasks, page_log, detail_tasks,
                   enrich_arg, prop_by_url, properties, ioVars>>

\* lines 295-304
BuildRecords ==
    /\ pc = "BUILD_RECORDS"
    /\ properties' = BuildProperties(unique_properties)
    /\ pc' = "DONE"
    /\ phases' = Append(phases, "DONE")
    /\ UNCHANGED <<args, first, first_html, total_count, all_properties,
                   pages_to_scrape, page_tasks, page_log, unique_properties,
                   detail_tasks, enrich_arg, prop_by_url, ioVars>>

Next ==
    \/ Start
    \/ FirstPageAttempt
    \/ FirstPageReturned
    \/ EstimateTotal
    \/ SubmitPages
    \/ \E page \in DOMAIN page_tasks : PageAttempt(page)
    \/ \E page \in DOMAIN page_tasks : PageCollect(page)
    \/ PagesDone
    \/ Deduplicate
    \/ ApplyLimit
    \/ EnrichSubmit
    \/ \E i \in DOMAIN detail_tasks : DetailAttempt(i)
    \/ \E i \in DOMAIN detail_tasks : DetailCollect(i)
    \/ EnrichReturn
    \/ BuildRecords

Spec == Init /\ [][Next]_vars

\* Every request ends, with a response or with the failure the timeout of
\* session.get turns a silent upstream into, and a thread that can take a
\* step is eventually run: as long as a step is possible, one is taken.
SpecLive == Spec /\ WF_vars(Next)

----------------------------------------------------------------------------
(* The transport, the merge and the deduplication on their own: each is     *)
(* run on inputs drawn from a bounded set, with no scrape in progress.      *)

MaxRetriesArg == 4    \* retries is 1..MaxRetriesArg
MaxDedupLen == 4      \* the accumulated list holds up to this many records

NoScrape ==
    /\ args = [max_pages |-> PyNone, limit |-> PyNone, fetch_details |-> TRUE]
    /\ pc = "IDLE"
    /\ first = Returned
    /\ first_html = NoHtml
    /\ total_count = 0
    /\ all_properties = <<>>
    /\ pages_to_scrape = 0
    /\ page_tasks = <<>>
    /\ page_log = <<>>
    /\ unique_properties = <<>>
    /\ detail_tasks = <<>>
    /\ enrich_arg = <<>>
    /\ prop_by_url = <<>>
    /\ properties = <<>>
    /\ phases = <<>>
    /\ scraper = DefaultScraper

\* _fetch_page(url, retries) is called
InitFetch ==
    /\ NoScrape
    /\ \E retries \in 1..MaxRetriesArg :
          fetch_io = [retries |-> retries, f |-> NewFetch, log |-> <<>>]
    /\ merge_io = IdleMergeIo
    /\ dedup_io = IdleDedupIo
    /\ price_io = IdlePriceIo

\* one attempt; log keeps how each attempt ended
FetchAttempt ==
    /\ fetch_io.f.st = "running"
    /\ \E r \in Responses({EmptyHtml, IndexHtml(0, <<CardA>>)}) :
          fetch_io' = [fetch_io EXCEPT
                          !.f = fetch_attempt(@, fetch_io.retries, r.kind, r.html),
                          !.log = Append(@, r)]
    /\ UNCHANGED <<scrapeVars, merge_io, dedup_io, scraper, price_io>>

SpecFetch == InitFetch /\ [][FetchAttempt]_vars

PriceValues == {Absent, PyNone, PyInt(0), PyInt(300000), PyInt(310000)}

FloorValues == {Absent, PyStr(<<"">>), PyStr(<<"0">>), PyStr(<<"2">>)}

DescriptionValues == {Absent, PyStr(<<"">>), PyStr(<<"x">>)}

VideoValues == {Absent, PyBool(FALSE), PyBool(TRUE)}

MergeDicts ==
    {[f \in Fields |->
         CASE f = "price"       -> pr
           [] f = "floor"       -> fl
           [] f = "description" -> de
           [] f = "has_video"   -> vi
           [] OTHER             -> Absent] :
       pr \in PriceValues, fl \in FloorValues, de \in DescriptionValues,
       vi \in VideoValues}

\* a detail dict is about to be merged into an index dict
InitMerge ==
    /\ NoScrape
    /\ fetch_io = IdleFetchIo
    /\ \E index \in MergeDicts, detail \in MergeDicts :
          merge_io = [index |-> index, detail |-> detail, merged |-> index,
                      done |-> FALSE]
    /\ dedup_io = IdleDedupIo
    /\ price_io = IdlePriceIo

\* lines 336-347
MergeDetail ==
    /\ ~merge_io.done
    /\ merge_io' = [merge_io EXCEPT
                       !.merged = Merge(merge_io.index, merge_io.detail),
                       !.done = TRUE]
    /\ UNCHANGED <<scrapeVars, fetch_io, dedup_io, scraper, price_io>>

SpecMerge == InitMerge /\ [][MergeDetail]_vars

ListingIds == {Absent, PyStr(<<"">>), PyStr(<<"A">>), PyStr(<<"B">>),
               PyStr(<<"C">>)}

\* index records: a listing_id (or none) and a price that tells apart the
\* records of one listing
DedupRecords ==
    {[f \in Fields |->
         CASE f = "listing_id" -> id
           [] f = "price"      -> PyInt(n)
           [] OTHER            -> Absent] :
       id \in ListingIds, n \in 1..2}

RECURSIVE SeqsUpTo(_, _)
SeqsUpTo(S, n) ==
    IF n = 0 THEN {<<>>}
    ELSE LET shorter == SeqsUpTo(S, n - 1)
         IN  shorter \cup {Append(q, x) : q \in shorter, x \in S}

\* the accumulated list is about to be deduplicated
InitDedup ==
    /\ NoScrape
    /\ fetch_io = IdleFetchIo
    /\ merge_io = IdleMergeIo
    /\ \E input \in SeqsUpTo(DedupRecords, MaxDedupLen) :
          dedup_io = [input |-> input, output |-> <<>>, done |-> FALSE]
    /\ price_io = IdlePriceIo

\* lines 275-282
DedupeList ==
    /\ ~dedup_io.done
    /\ dedup_io' = [dedup_io EXCEPT !.output = Dedupe(dedup_io.input),
                                    !.done = TRUE]
    /\ UNCHANGED <<scrapeVars, fetch_io, merge_io, scraper, price_io>>

SpecDedup == InitDedup /\ [][DedupeList]_vars

----------------------------------------------------------------------------
(* The collection of the remaining pages, from the moment every page task   *)
(* has finished: the order in which as_completed yields them is open.       *)

MaxOrderPages == 3    \* pages 2..MaxOrderPages were submitted

\* a third listing
CardC == Card(<<"", "annonce", "vente", "c">>, Absent, FALSE)

OrderDocs ==
    {IndexHtml(0, <<CardB>>), IndexHtml(0, <<CardC>>),
     IndexHtml(0, <<CardC, CardB>>), IndexHtml(0, <<CardA2>>)}

\* a page task whose fetch has returned
FinishedPageTasks ==
    {[f |-> Returned, st |-> "failed", result |-> <<>>, collected |-> FALSE]}
    \cup {[f |-> Returned, st |-> "ok", result |-> scrape_page(doc),
           collected |-> FALSE] : doc \in OrderDocs}

\* scrape() has submitted pages 2..MaxOrderPages and every task has finished
InitOrder ==
    /\ args \in [max_pages : {PyNone}, limit : OptionalInt(MaxLimit),
                 fetch_details : {FALSE}]
    /\ pc = "PAGES_COLLECT"
    /\ first = Returned
    /\ first_html = IndexHtml(LISTINGS_PER_PAGE * (MaxOrderPages - 1) + 1,
                              <<CardA>>)
    /\ total_count = parse_total_count(first_html)
    /\ all_properties = parse_listings_from_page(first_html)
    /\ pages_to_scrape = PagesToScrape(EstimatePages(total_count, all_properties),
                                       args.max_pages)
    /\ page_tasks \in [2..pages_to_scrape -> FinishedPageTasks]
    /\ page_log = <<>>
    /\ unique_properties = <<>>
    /\ detail_tasks = <<>>
    /\ enrich_arg = <<>>
    /\ prop_by_url = <<>>
    /\ properties = <<>>
    /\ phases = <<"INIT", "FETCH_FIRST_PAGE", "ESTIMATE_TOTAL",
                  "FETCH_REMAINING_PAGES">>
    /\ scraper = DefaultScraper
    /\ fetch_io = IdleFetchIo
    /\ merge_io = IdleMergeIo
    /\ dedup_io = IdleDedupIo
    /\ price_io = IdlePriceIo

NextOrder ==
    \/ \E page \in DOMAIN page_tasks : PageCollect(page)
    \/ PagesDone
    \/ Deduplicate
    \/ ApplyLimit
    \/ BuildRecords

SpecOrder == InitOrder /\ [][NextOrder]_vars

----------------------------------------------------------------------------
(* parse_price.  Here a text is the sequence of its characters; "nbsp" is   *)
(* the non-breaking space U+00A0 and "euro" the euro sign.                  *)

MaxPriceLen == 4      \* the texts hold up to this many characters

Chars == {"0", "1", "7", " ", "nbsp", "euro"}

\* the characters \d matches
IsDigit(c) == c \in {"0", "1", "7"}

DigitValue(c) == CASE c = "0" -> 0 [] c = "1" -> 1 [] c = "7" -> 7

\* int(clean), for clean a non-empty string of digits
RECURSIVE IntOf(_)
IntOf(clean) ==
    IF clean = <<>> THEN 0
    ELSE IntOf(Front(clean)) * 10 + DigitValue(Last(clean))

\* A mutant: the digits are read up to the first character that is none.
parse_price_leading_digits(text) ==
    LET stops == {i \in 1..Len(text) : ~IsDigit(text[i])}
        clean == IF stops = {} THEN text
                 ELSE SubSeq(text, 1,
                             (CHOOSE i \in stops : \A j \in stops : i <= j) - 1)
    IN  IF clean # <<>> THEN PyInt(IntOf(clean)) ELSE PyNone

\* lines 390-400
parse_price(text) ==
    IF text = <<>> THEN PyNone
    ELSE LET clean == SelectSeq(text, IsDigit)
         IN  IF clean # <<>> THEN PyInt(IntOf(clean)) ELSE PyNone

\* parse_price(text) is about to be called
InitPrice ==
    /\ NoScrape
    /\ fetch_io = IdleFetchIo
    /\ merge_io = IdleMergeIo
    /\ dedup_io = IdleDedupIo
    /\ \E text \in SeqsUpTo(Chars, MaxPriceLen) :
          price_io = [text |-> text, result |-> PyNone, done |-> FALSE]

ParsePrice ==
    /\ ~price_io.done
    /\ price_io' = [price_io EXCEPT !.result = parse_price(price_io.text),
                                    !.done = TRUE]
    /\ UNCHANGED <<scrapeVars, fetch_io, merge_io, dedup_io, scraper>>

SpecPrice == InitPrice /\ [][ParsePrice]_vars

----------------------------------------------------------------------------
(* main(): the scraper is constructed, then scrape() is called on it.       *)

\* --api-key: not given, given empty, given
ApiKeyArgs == {PyNone, PyStr(<<"">>), PyStr(<<"arg-key">>)}

\* SCRAPINGANT_API_KEY in os.environ: unset, set empty, set
Environs == {Absent, PyStr(<<"">>), PyStr(<<"env-key">>)}

\* main() has parsed its arguments
InitMain ==
    /\ args \in Args
    /\ pc = "IDLE"
    /\ first = Returned
    /\ first_html = NoHtml
    /\ total_count = 0
    /\ all_properties = <<>>
    /\ pages_to_scrape = 0
    /\ page_tasks = <<>>
    /\ page_log = <<>>
    /\ unique_properties = <<>>
    /\ detail_tasks = <<>>
    /\ enrich_arg = <<>>
    /\ prop_by_url = <<>>
    /\ properties = <<>>
    /\ phases = <<>>
    /\ \E arg \in ApiKeyArgs, environ \in Environs :
          scraper = [arg |-> arg, environ |-> environ, api_key |-> PyNone,
                     st |-> "new"]
    /\ fetch_io = IdleFetchIo
    /\ merge_io = IdleMergeIo
    /\ dedup_io = IdleDedupIo
    /\ price_io = IdlePriceIo

\* main.py lines 120-126 and 142-144: BieniciScraper(api_key=...) either
\* raises ValueError, which ends main() with exit status 1, or returns the
\* scraper, and scrape() is called
NewScraper ==
    /\ pc = "IDLE"
    /\ scraper.st = "new"
    /\ scraper' = Construct(scraper.arg, scraper.environ)
    /\ IF scraper'.st = "ValueError"
       THEN /\ pc' = "EXIT"
            /\ UNCHANGED phases
       ELSE /\ pc' = "INIT"
            /\ phases' = <<"INIT">>
    /\ UNCHANGED <<args, first, first_html, total_count, all_properties,
                   pages_to_scrape, page_tasks, page_log, unique_properties,
                   detail_tasks, enrich_arg, prop_by_url, properties,
                   fetch_io, merge_io, dedup_io, price_io>>

NextMain ==
    \/ NewScraper
    \/ Next

SpecMain == InitMain /\ [][NextMain]_vars

----------------------------------------------------------------------------
(* Properties.                                                              *)

\* ceil(a / b) by its definition: the least q with q * b >= a
CeilDiv(a, b) == CHOOSE q \in 0..a : q * b >= a /\ \A r \in 0..(q - 1) : r * b < a

Max(a, b) == IF a > b THEN a ELSE b

IsPrefix(s, t) == Len(s) <= Len(t) /\ SubSeq(t, 1, Len(s)) = s

\* The detail fetch of task i yielded nothing: it exhausted its retries, got
\* no content, or raised.
DetailFailed(i) ==
    /\ detail_tasks[i].st # "running"
    /\ detail_tasks[i].st \in {"failed", "raised"} \/ detail_tasks[i].detail = <<>>

EnrichDone == pc \in {"BUILD_RECORDS", "DONE"} /\ detail_tasks # <<>>

\* C1: a listing whose detail fetch fails (retries exhausted, no content, or
\* the task raised) stays in the batch with exactly the field values it had
\* before enrichment, and enrichment returns as many listings as it was
\* given, whichever detail fetches fail.
C1_FailedDetailKeepsIndexData ==
    /\ pc = "DETAILS_COLLECT" =>
          /\ Len(prop_by_url) = Len(enrich_arg)
          /\ Len(detail_tasks) = Len(enrich_arg)
          /\ \A i \in DOMAIN detail_tasks :
                (DetailFailed(i) \/ ~detail_tasks[i].collected) =>
                    prop_by_url[i].val = enrich_arg[i]
    /\ EnrichDone =>
          /\ Len(unique_properties) = Len(enrich_arg)
          /\ \A i \in DOMAIN detail_tasks :
                DetailFailed(i) => unique_properties[i] = enrich_arg[i]

\* Two listings were enriched: the detail fetch of one failed after its
\* retries, that of the other succeeded and changed its record.
C1_Witness ==
    /\ EnrichDone
    /\ Len(enrich_arg) = 2
    /\ \E i, j \in DOMAIN detail_tasks :
          /\ detail_tasks[i].st = "failed"
          /\ detail_tasks[j].st = "ok"
          /\ unique_properties[j] # enrich_arg[j]
          /\ unique_properties[i] = enrich_arg[i]

\* the always-prefer-detail set as the specification lists it
SpecAlwaysPreferDetail ==
    {"description", "agency_name", "agency_address", "energy_rating",
     "ges_rating", "floor", "exposure", "heating_type", "published_date",
     "modified_date", "reference", "mandate_type", "energy_consumption",
     "ges_emission", "energy_bill_min", "energy_bill_max",
     "price_without_fees", "agency_fees_percent"}

\* C2: after the merge every field holds the detail value if that value is
\* present and truthy and the index value is absent or falsy or the field is
\* in the always-prefer-detail set, and the index value otherwise; so index
\* price 300000 against detail price 310000 stays 300000, a missing
\* description is filled, floor "2" against detail floor "" stays "2" and
\* against detail floor "0" becomes "0".
C2_MergePrecedence ==
    merge_io.done =>
       LET index  == merge_io.index
           detail == merge_io.detail
           merged == merge_io.merged
       IN  /\ \A f \in Fields :
                 merged[f] =
                    IF /\ detail[f].k # "absent"
                       /\ Truthy(detail[f])
                       /\ \/ index[f].k = "absent"
                          \/ ~Truthy(index[f])
                          \/ f \in SpecAlwaysPreferDetail
                    THEN detail[f]
                    ELSE index[f]
           /\ (index["price"] = PyInt(300000) /\ detail["price"] = PyInt(310000))
                 => merged["price"] = PyInt(300000)
           /\ (index["description"] = Absent
                  /\ detail["description"] = PyStr(<<"x">>))
                 => merged["description"] = PyStr(<<"x">>)
           /\ (index["floor"] = PyStr(<<"2">>) /\ detail["floor"] = PyStr(<<"">>))
                 => merged["floor"] = PyStr(<<"2">>)
           /\ (index["floor"] = PyStr(<<"2">>) /\ detail["floor"] = PyStr(<<"0">>))
                 => merged["floor"] = PyStr(<<"0">>)

\* The specification's example, merged: the price is the index's, the
\* description and the floor are the detail's.
C2_Witness ==
    /\ merge_io.done
    /\ merge_io.index["price"] = PyInt(300000)
    /\ merge_io.index["description"] = Absent
    /\ merge_io.index["floor"] = PyStr(<<"2">>)
    /\ merge_io.detail["price"] = PyInt(310000)
    /\ merge_io.detail["description"] = PyStr(<<"x">>)
    /\ merge_io.detail["floor"] = PyStr(<<"0">>)
    /\ merge_io.merged["price"] = PyInt(300000)
    /\ merge_io.merged["description"] = PyStr(<<"x">>)
    /\ merge_io.merged["floor"] = PyStr(<<"0">>)

IdsOf(props) == [i \in 1..Len(props) |-> props[i]["listing_id"]]

\* the place of the first record of the list with this listing_id
FirstIndex(props, id) ==
    CHOOSE i \in 1..Len(props) :
        /\ props[i]["listing_id"] = id
        /\ \A j \in 1..(i - 1) : props[j]["listing_id"] # id

\* C3: the deduplicated list holds exactly one record for every non-empty
\* listing_id of the accumulated list, namely the first record with that
\* listing_id, in the order of first occurrence; records without a
\* listing_id are dropped; ids [A, B, A, C] give [A, B, C].
C3_DedupFirstSeen ==
    dedup_io.done =>
       LET input  == dedup_io.input
           output == dedup_io.output
           ids    == {input[i]["listing_id"] : i \in 1..Len(input)}
                        \ {Absent, PyStr(<<"">>)}
       IN  /\ {output[j]["listing_id"] : j \in 1..Len(output)} = ids
           /\ Len(output) = Cardinality(ids)
           /\ \A j \in 1..Len(output) :
                 output[j] = input[FirstIndex(input, output[j]["listing_id"])]
           /\ \A j, k \in 1..Len(output) :
                 j < k => FirstIndex(input, output[j]["listing_id"])
                             < FirstIndex(input, output[k]["listing_id"])
           /\ IdsOf(input) = <<PyStr(<<"A">>), PyStr(<<"B">>), PyStr(<<"A">>),
                               PyStr(<<"C">>)>>
                 => IdsOf(output) = <<PyStr(<<"A">>), PyStr(<<"B">>),
                                      PyStr(<<"C">>)>>

\* The ids [A, B, A, C], the two records of A differing: the first is kept.
C3_Witness ==
    /\ dedup_io.done
    /\ IdsOf(dedup_io.input) = <<PyStr(<<"A">>), PyStr(<<"B">>), PyStr(<<"A">>),
                                 PyStr(<<"C">>)>>
    /\ dedup_io.input[1] # dedup_io.input[3]
    /\ dedup_io.output = <<dedup_io.input[1], dedup_io.input[2],
                           dedup_io.input[4]>>

FailedAttempts(log) == {i \in 1..Len(log) : log[i].kind \in RequestExceptions}

\* C4: a fetch issues at most `retries` attempts; it returns the HTML of the
\* first successful attempt, which is its last attempt; a timeout, a non-2xx
\* status and a connection error are each a failed attempt that is retried
\* while the budget lasts; failure is reported only after `retries` failed
\* attempts.
C4_FetchRetryBudget ==
    LET f   == fetch_io.f
        log == fetch_io.log
    IN  /\ f.sent = Len(log)
        /\ Len(log) <= fetch_io.retries
        /\ \A i \in 1..(Len(log) - 1) : log[i].kind \in RequestExceptions
        /\ f.st = "ok" <=> (log # <<>> /\ Last(log).kind = "ok")
        /\ f.st = "ok" => f.html = Last(log).html
        /\ (log # <<>> /\ Last(log).kind \in RequestExceptions
               /\ Len(log) < fetch_io.retries) => f.st = "running"
        /\ f.st = "failed" <=>
              (Len(log) = fetch_io.retries
                  /\ FailedAttempts(log) = 1..fetch_io.retries)

\* With the default budget: a timeout, then a non-2xx status, then a
\* response, whose body is returned.
C4_Witness ==
    /\ fetch_io.retries = MAX_RETRIES
    /\ fetch_io.f.st = "ok"
    /\ Len(fetch_io.log) = 3
    /\ fetch_io.log[1].kind = "Timeout"
    /\ fetch_io.log[2].kind = "HTTPError"
    /\ fetch_io.f.html = IndexHtml(0, <<CardA>>)

\* C5: after the failed attempt number `attempt` (from 0) the fetch sleeps
\* 2^attempt + 5 seconds (6, 7, ...) unless that attempt was the last of the
\* budget: a fetch whose attempts all fail sleeps retries - 1 times.
C5_FetchBackoff ==
    LET f      == fetch_io.f
        failed == Cardinality(FailedAttempts(fetch_io.log))
    IN  /\ Len(f.waits) = Min(failed, fetch_io.retries - 1)
        /\ \A i \in 1..Len(f.waits) : f.waits[i] = 2 ^ (i - 1) + 5
        /\ Len(f.waits) >= 1 => f.waits[1] = 6
        /\ Len(f.waits) >= 2 => f.waits[2] = 7
        /\ f.st = "failed" => Len(f.waits) = fetch_io.retries - 1

\* The default budget exhausted: three failed attempts, two sleeps.
C5_Witness ==
    /\ fetch_io.retries = MAX_RETRIES
    /\ fetch_io.f.st = "failed"
    /\ fetch_io.f.sent = 3
    /\ fetch_io.f.waits = <<6, 7>>

\* the first page has been fetched and its html is still at hand
FirstPageKnown ==
    /\ pc \notin {"IDLE", "INIT", "FETCH_FIRST_PAGE", "RAISED"}
    /\ "APPLY_LIMIT" \notin Range(phases)

\* C6: if the fetch of the first page fails or the page holds no listing
\* card, scrape returns an empty list, does not raise, and issues no other
\* page fetch and no detail fetch.
C6_FirstPageFailureAborts ==
    (FirstPageKnown
        /\ (first_html.k # "page" \/ parse_listings_from_page(first_html) = <<>>))
       => /\ pc = "DONE"
          /\ properties = <<>>
          /\ page_tasks = <<>>
          /\ detail_tasks = <<>>
          /\ phases = <<"INIT", "FETCH_FIRST_PAGE", "DONE">>

\* The first page's fetch exhausted its retries and scrape returned [].
C6_Witness ==
    /\ pc = "DONE"
    /\ first_html = NoHtml
    /\ phases = <<"INIT", "FETCH_FIRST_PAGE", "DONE">>
    /\ properties = <<>>

\* the pages requested are known: the tasks are submitted, or there are none
PagesKnown == pc \in {"PAGES_COLLECT", "DEDUPE"}

PagesRequested == {1} \cup DOMAIN page_tasks

\* the page count of the claim: the estimate, capped by max_pages when one
\* is given
ClaimedPages ==
    LET cards == Len(parse_listings_from_page(first_html))
        est   == CeilDiv(total_count, Max(cards, 24))
    IN  IF args.max_pages.k = "int" THEN Min(est, args.max_pages.n) ELSE est

\* C7: the pages scraped are page 1, fetched once, and each page 2..P,
\* submitted once, with P = ceil(total_count / max(first-page cards, 24))
\* capped by max-pages whenever one is given; no page above P is requested;
\* total_count 100 with 24 or with 10 cards gives 5 pages.
C7_PagesAsClaimed ==
    /\ EstimatePages(100, [i \in 1..24 |-> EmptyDict]) = 5
    /\ EstimatePages(100, [i \in 1..10 |-> EmptyDict]) = 5
    /\ PagesKnown =>
          /\ PagesRequested = {1} \cup 2..ClaimedPages
          /\ first.st # "running"

RECURSIVE PageResults(_)
PageResults(log) ==
    IF log = <<>> THEN <<>>
    ELSE (IF page_tasks[Head(log)].st = "ok" THEN page_tasks[Head(log)].result
          ELSE <<>>)
         \o PageResults(Tail(log))

\* C8: a page whose fetch fails or whose task raises adds no record and
\* stops nothing: the accumulated list is the first page's records followed
\* by the records of the pages that succeeded, as they completed, and every
\* submitted page is collected, whichever pages fail.
C8_FailedPageAddsNothing ==
    PagesKnown =>
       /\ all_properties =
             parse_listings_from_page(first_html) \o PageResults(page_log)
       /\ Range(page_log) = {p \in DOMAIN page_tasks : page_tasks[p].collected}
       /\ Len(page_log) = Cardinality(Range(page_log))
       /\ \A p \in DOMAIN page_tasks :
             page_tasks[p].st \in {"failed", "raised"} =>
                page_tasks[p].result = <<>>
       /\ pc = "DEDUPE" => Range(page_log) = DOMAIN page_tasks

\* Of two pages one raised or failed, the other added its records after
\* the first page's.
C8_Witness ==
    /\ pc = "DEDUPE"
    /\ \E p, q \in DOMAIN page_tasks :
          /\ page_tasks[p].st = "raised"
          /\ page_tasks[q].st = "ok"
          /\ page_tasks[q].result # <<>>
          /\ page_log = <<p, q>>
          /\ all_properties =
                parse_listings_from_page(first_html) \o page_tasks[q].result

\* scrape() is past "if limit:"
LimitApplied ==
    pc \in {"FETCH_DETAILS", "DETAILS_COLLECT", "BUILD_RECORDS"}
       \/ (pc = "DONE" /\ Len(phases) > 3)

\* C9: with a limit L the deduplicated list is cut to its first L records
\* before any detail fetch is submitted: at most L detail fetches are
\* issued and scrape returns at most L records.
C9_LimitAsClaimed ==
    args.limit.k = "int" =>
       /\ Len(detail_tasks) <= args.limit.n
       /\ LimitApplied => Len(unique_properties) <= args.limit.n
       /\ pc = "DONE" => Len(properties) <= args.limit.n

\* the order of the specification's state machine
ClaimedOrder(fetch_details) ==
    <<"INIT", "FETCH_FIRST_PAGE", "ESTIMATE_TOTAL", "FETCH_REMAINING_PAGES",
      "DEDUPE">>
    \o (IF fetch_details THEN <<"FETCH_DETAILS">> ELSE <<>>)
    \o <<"APPLY_LIMIT", "BUILD_RECORDS", "DONE">>

\* the same with the limit applied before the details are fetched
LimitFirstOrder(fetch_details) ==
    <<"INIT", "FETCH_FIRST_PAGE", "ESTIMATE_TOTAL", "FETCH_REMAINING_PAGES",
      "DEDUPE", "APPLY_LIMIT">>
    \o (IF fetch_details THEN <<"FETCH_DETAILS">> ELSE <<>>)
    \o <<"BUILD_RECORDS", "DONE">>

AbortedOnFirstPage == phases = <<"INIT", "FETCH_FIRST_PAGE", "DONE">>

\* no fetch runs and no result waits outside the phase that owns it
PhasesDoNotOverlap ==
    /\ first.st = "running" => pc = "FETCH_FIRST_PAGE"
    /\ (\E p \in DOMAIN page_tasks : ~page_tasks[p].collected)
          => pc = "PAGES_COLLECT"
    /\ (\E i \in DOMAIN detail_tasks : ~detail_tasks[i].collected)
          => pc = "DETAILS_COLLECT"
    /\ page_tasks # <<>> => detail_tasks = <<>>

\* C10 as stated: the phases follow INIT, FETCH_FIRST_PAGE, ESTIMATE_TOTAL,
\* FETCH_REMAINING_PAGES, DEDUPE, FETCH_DETAILS (when requested),
\* APPLY_LIMIT, BUILD_RECORDS, DONE.
C10_PhaseOrderAsClaimed ==
    AbortedOnFirstPage \/ IsPrefix(phases, ClaimedOrder(args.fetch_details))

\* C10, amended: the phases follow INIT, FETCH_FIRST_PAGE, ESTIMATE_TOTAL,
\* FETCH_REMAINING_PAGES, DEDUPE, APPLY_LIMIT, FETCH_DETAILS (only when
\* details are requested), BUILD_RECORDS, DONE; no phase starts before the
\* previous one has finished, and without the request for details no detail
\* fetch is issued.
C10_PhaseOrder ==
    /\ AbortedOnFirstPage \/ IsPrefix(phases, LimitFirstOrder(args.fetch_details))
    /\ PhasesDoNotOverlap
    /\ ~args.fetch_details => detail_tasks = <<>>

\* A scrape with details and a limit has gone through every phase.
C10_Witness ==
    /\ pc = "DONE"
    /\ args.fetch_details
    /\ args.limit = PyInt(1)
    /\ phases = LimitFirstOrder(TRUE)
    /\ Len(detail_tasks) = 1

----------------------------------------------------------------------------
(* C11 *)

\* a credential is present: a non-empty string
Present(v) == v.k = "str" /\ v.p # <<"">>

\* no request has been sent and none is in flight
NoNetworkActivity ==
    /\ phases = <<>>
    /\ first.sent = 0
    /\ page_tasks = <<>>
    /\ detail_tasks = <<>>

\* C11: once the constructor has run, the scraper's credential is the api_key
\* argument when one is present and the environment's value otherwise; the
\* constructor raises ValueError exactly when neither is present, and then
\* main ends without a single request having been sent; no request is sent
\* before the constructor has run either.
C11_CredentialPrecedence ==
    /\ scraper.st = "constructed" =>
          /\ Present(scraper.api_key)
          /\ scraper.api_key = IF Present(scraper.arg) THEN scraper.arg
                               ELSE scraper.environ
    /\ scraper.st # "new" =>
          (scraper.st = "ValueError"
             <=> ~Present(scraper.arg) /\ ~Present(scraper.environ))
    /\ scraper.st = "ValueError" => pc = "EXIT" /\ NoNetworkActivity
    /\ scraper.st = "new" => NoNetworkActivity

\* the argument and the environment both hold a key, they differ, and a
\* request has been sent for the scraper built from them
C11_Witness ==
    /\ scraper.st = "constructed"
    /\ Present(scraper.arg)
    /\ Present(scraper.environ)
    /\ scraper.arg # scraper.environ
    /\ first.sent > 0

----------------------------------------------------------------------------
(* C12 *)

\* Property(**d) fails: d holds a key that is no field of the dataclass
\* (the one such key the extractors write is dpe_date)
CannotBeCoerced(d) == d["dpe_date"].k # "absent"

\* C12: the step that builds the records always finishes (it leads to DONE,
\* never to an exception), and the records it returns are the mappings that
\* can be coerced, every one of them, in the order of the merged list.
C12_BuildIsBestEffort ==
    [][pc = "BUILD_RECORDS" =>
          /\ pc' = "DONE"
          /\ properties' = SelectSeq(unique_properties,
                                     LAMBDA d : ~CannotBeCoerced(d))]_vars

\* a batch of two whose first mapping was dropped and whose second was built
C12_Witness ==
    /\ pc = "DONE"
    /\ Len(unique_properties) = 2
    /\ CannotBeCoerced(unique_properties[1])
    /\ properties = <<unique_properties[2]>>

----------------------------------------------------------------------------
(* C13 *)

\* the tasks that fetch the detail page of url
TasksOf(tasks, url) == {i \in DOMAIN tasks : tasks[i].url = url}

\* C13: at every step of every interleaving of the detail workers and the
\* collecting loop, every url of the mapping is fetched by exactly one task;
\* a step changes at most one entry of the mapping, never its key, and only
\* as the result of the one task that fetched that entry's url is collected;
\* the workers' own steps change no entry.
C13_OneWriterPerUrl ==
    [][/\ \A k \in DOMAIN prop_by_url' :
             pc' = "DETAILS_COLLECT" =>
                Cardinality(TasksOf(detail_tasks', prop_by_url'[k].key)) = 1
       /\ pc = "DETAILS_COLLECT" /\ pc' = "DETAILS_COLLECT" =>
             /\ Len(prop_by_url') = Len(prop_by_url)
             /\ \A k \in DOMAIN prop_by_url :
                   prop_by_url'[k] # prop_by_url[k] =>
                      /\ prop_by_url'[k].key = prop_by_url[k].key
                      /\ \E i \in TasksOf(detail_tasks, prop_by_url[k].key) :
                            /\ detail_tasks[i].st = "ok"
                            /\ ~detail_tasks[i].collected
                            /\ detail_tasks'[i].collected
                            /\ \A j \in DOMAIN detail_tasks \ {i} :
                                  detail_tasks'[j] = detail_tasks[j]
                      /\ \A m \in DOMAIN prop_by_url \ {k} :
                            prop_by_url'[m] = prop_by_url[m]]_vars

\* two detail tasks have been collected and each has changed the entry of
\* its own url
C13_Witness ==
    /\ pc = "DETAILS_COLLECT"
    /\ Len(prop_by_url) = 2
    /\ \A k \in 1..2 : /\ detail_tasks[k].collected
                        /\ prop_by_url[k].val # enrich_arg[k]
                        /\ prop_by_url[k].key = detail_tasks[k].url

----------------------------------------------------------------------------
(* C14 *)

\* the positions of text that hold a digit
DigitPositions(text) == {i \in 1..Len(text) : text[i] \in {"0", "1", "7"}}

\* the number the digits of text spell: each digit counts for its value
\* times ten to the number of digits after it
RECURSIVE SpelledNumber(_, _)
SpelledNumber(text, positions) ==
    IF positions = {} THEN 0
    ELSE LET i     == CHOOSE x \in positions : TRUE
             after == Cardinality({j \in DigitPositions(text) : j > i})
             value == CASE text[i] = "0" -> 0 [] text[i] = "1" -> 1
                        [] text[i] = "7" -> 7
         IN  value * 10 ^ after + SpelledNumber(text, positions \ {i})

\* C14: for a text of digits, spaces and non-breaking spaces with at least
\* one digit, parse_price returns the integer its digits spell; for a text
\* without a digit, the empty text included, it returns None.
C14_ParsePrice ==
    price_io.done =>
       LET text == price_io.text
       IN  /\ (/\ DigitPositions(text) # {}
               /\ \A i \in 1..Len(text) :
                     i \in DigitPositions(text) \/ text[i] \in {" ", "nbsp"})
                 => price_io.result
                       = PyInt(SpelledNumber(text, DigitPositions(text)))
           /\ DigitPositions(text) = {} => price_io.result = PyNone

\* "7 10" with a non-breaking space has been parsed as 710
C14_Witness ==
    /\ price_io.done
    /\ price_io.text = <<"7", "nbsp", "1", "0">>
    /\ price_io.result = PyInt(710)

----------------------------------------------------------------------------
(* C15 *)

\* the fields of the dataclass Property among the keys the model follows
RecordFields == {"url", "listing_id", "price", "has_video", "contract_type",
                 "floor", "description"}

\* C15: every mapping that reaches the build step holds only keys that are
\* fields of Property, and a scrape that has built its records returns one
\* record for each listing kept after deduplication, limit and enrichment.
C15_OneRecordPerListing ==
    /\ pc = "BUILD_RECORDS" =>
          \A i \in DOMAIN unique_properties :
             \A f \in Fields :
                unique_properties[i][f].k # "absent" => f \in RecordFields
    /\ pc = "DONE" /\ "BUILD_RECORDS" \in Range(phases) =>
          /\ Len(properties) = Len(unique_properties)
          /\ \A i \in DOMAIN properties :
                properties[i]["listing_id"] = unique_properties[i]["listing_id"]

----------------------------------------------------------------------------
(* C16 *)

\* the _fetch_page calls in progress
RunningFetches ==
    (IF first.st = "running" THEN {first} ELSE {})
    \cup {page_tasks[page].f : page \in {q \in DOMAIN page_tasks :
                                            page_tasks[q].st = "running"}}
    \cup {detail_tasks[i].f : i \in {j \in DOMAIN detail_tasks :
                                          detail_tasks[j].st = "running"}}

\* C16: when every attempt ends and the threads keep running, a scrape that
\* no foreign exception aborts reaches DONE; it leaves a batch of page tasks
\* or of detail tasks only when every task of the batch has been collected,
\* whatever failed in it; and a fetch in progress has sent fewer than
\* MAX_RETRIES requests and waited once per failure, so that no url holds
\* the batch beyond its own three attempts.
C16_ScrapeTerminates ==
    /\ [](pc # "RAISED") => <>(pc = "DONE")
    /\ [](pc = "DEDUPE" =>
            \A page \in DOMAIN page_tasks : page_tasks[page].collected)
    /\ [](pc \in {"BUILD_RECORDS", "DONE"} =>
            \A i \in DOMAIN detail_tasks : detail_tasks[i].collected)
    /\ [](\A f \in RunningFetches :
            f.sent < 3 /\ Len(f.waits) = f.sent)

\* a scrape has returned although the detail fetch of one listing used up
\* its attempts; the other listing's detail was fetched and merged
C16_Witness ==
    /\ pc = "DONE"
    /\ Len(detail_tasks) = 2
    /\ \E i, j \in DOMAIN detail_tasks :
          /\ detail_tasks[i].st = "failed" /\ detail_tasks[i].collected
          /\ detail_tasks[j].st = "ok" /\ detail_tasks[j].collected
          /\ prop_by_url[j].val # enrich_arg[j]

----------------------------------------------------------------------------
(* C17 *)

\* the orders in which the tasks of S can complete
Perms(S) ==
    {order \in [1..Cardinality(S) -> S] :
        \A x \in S : \E i \in 1..Cardinality(S) : order[i] = x}

\* the records of page 1, with which the accumulated list starts
FirstPageRecords ==
    SubSeq(all_properties, 1, Len(all_properties) - Len(PageResults(page_log)))

\* the listing_ids scrape keeps of an accumulated list: first-seen
\* deduplication, then the limit
KeptIds(accumulated) == IdsOf(ApplyLimitTo(Dedupe(accumulated), args.limit))

\* what the same page results give when collected in another order
KeptIdsInOrder(order) == KeptIds(FirstPageRecords \o PageResults(order))

\* C17 as stated: once the pages are collected, the set of listing_ids kept
\* is the one every other completion order of the same page results would
\* have given, with or without a limit.
C17_SameIdsForEveryOrder ==
    pc = "DEDUPE" =>
       \A order \in Perms(DOMAIN page_tasks) :
          Range(KeptIdsInOrder(order)) = Range(KeptIds(all_properties))

\* C17: once the pages are collected, the number of listing_ids kept is the
\* one every other completion order of the same page results would have
\* given, and so is their set when no limit truncates the list.
C17_SameIdsWithoutLimit ==
    pc = "DEDUPE" =>
       \A order \in Perms(DOMAIN page_tasks) :
          /\ Len(KeptIdsInOrder(order)) = Len(KeptIds(all_properties))
          /\ ~Truthy(args.limit) =>
                Range(KeptIdsInOrder(order)) = Range(KeptIds(all_properties))

\* without a limit, two pages with different listings were collected in an
\* order that gives another sequence than the opposite order, and the same set
C17_Witness ==
    /\ pc = "DEDUPE"
    /\ args.limit = PyNone
    /\ Len(page_log) >= 2
    /\ \E order \in Perms(DOMAIN page_tasks) :
          /\ KeptIdsInOrder(order) # KeptIds(all_properties)
          /\ Range(KeptIdsInOrder(order)) = Range(KeptIds(all_properties))

----------------------------------------------------------------------------
(* C18 *)

SameIdentity(p, q) ==
    p["url"] = q["url"] /\ p["listing_id"] = q["listing_id"]

\* C18: whichever detail tasks succeed and in whatever order they are
\* collected, the mapping holds the listings in the order of the list that
\* was given, each with the url and listing_id it came with, and the list
\* enrichment returns has the same listings in the same places, no
\* listing_id twice.
C18_EnrichKeepsIdentityAndOrder ==
    /\ pc = "DETAILS_COLLECT" =>
          /\ Len(prop_by_url) = Len(enrich_arg)
          /\ \A i \in DOMAIN prop_by_url :
                SameIdentity(prop_by_url[i].val, enrich_arg[i])
    /\ EnrichDone =>
          /\ Len(unique_properties) = Len(enrich_arg)
          /\ \A i \in DOMAIN unique_properties :
                SameIdentity(unique_properties[i], enrich_arg[i])
          /\ \A i, j \in DOMAIN unique_properties :
                i # j => unique_properties[i]["listing_id"]
                            # unique_properties[j]["listing_id"]

\* enrichment has returned two listings, both merged with the detail page
\* fetched for them
C18_Witness ==
    /\ EnrichDone
    /\ Len(enrich_arg) = 2
    /\ \A i \in 1..2 : /\ detail_tasks[i].st = "ok"
                        /\ unique_properties[i] # enrich_arg[i]

====
